---- MODULE Spec2Model ----
(***************************************************************************)
(* A model of datautils.py: the snapshot aligner (dataset_psd2pkl_worker), *)
(* the tensor assembler (pil2tensor, drop_full_post_filter,                *)
(* PSDPickleDataset.load_pkl_data) and the compositing operator            *)
(* (LinearComposite).                                                      *)
(*                                                                         *)
(* Numbers.  Homography entries are fixed-point numbers in thousandths     *)
(* (MUnit); pixel channels are fixed-point numbers in units of 1/625       *)
(* (Unit), which represents the bytes 0, 51 and 255 divided by 255 and all *)
(* their products of up to four factors exactly.                           *)
(***************************************************************************)
EXTENDS Integers, Sequences, FiniteSets, TLC

VARIABLES
    \* dataset_psd2pkl_worker
    wpc,            \* position of the worker: "idle", "loop", "done", "raised"
    wfiles,         \* files[1:] still to be processed, newest first
    delete_psd,     \* the delete_psd argument
    psd_files,      \* the .psd files present in the sample directory
    M,              \* the running transform
    reference_img,  \* the snapshot whose grayscale render is the running reference
    good,           \* len(good) of the last iteration
    fitted,         \* whether the last iteration called cv2.findHomography
    perspective,    \* the incremental homography of the last iteration
    pkl,            \* the pickles written so far, in the order written
    \* pil2tensor and PSDPickleDataset.load_pkl_data
    lpc,            \* "build", "returned" or "raised"
    sample,         \* the sample: [preview, layers], as load_pkl_data holds it at line 228
    max_layers,     \* self.max_layers
    post_filter,    \* self.post_filter, or the layer_tensor_filter argument
    remove_occluded,\* the remove_occluded argument
    layers,         \* what pil2tensor returned: a sequence of [img, blend_mode]
    tensors,        \* the returned tensor batch
    one_hot_bm,     \* the returned blend matrix
    true_count,     \* the third returned value
    \* LinearComposite
    cpc,            \* "idle", "build", "loop" or "done"
    batch,          \* one entry of tensors and blend_modes: a sequence of slots
    background,     \* the background argument
    ret,            \* the running result
    ci              \* the number of slots composited so far

alignVars == <<wpc, wfiles, delete_psd, psd_files, M, reference_img, good, fitted, perspective, pkl>>

loadVars == <<lpc, sample, max_layers, post_filter, remove_occluded, layers, tensors, one_hot_bm, true_count>>

compVars == <<cpc, batch, background, ret, ci>>

vars == <<alignVars, loadVars, compVars>>

None == "None"

(***************************************************************************)
(* 3x3 matrices, row major, entries in thousandths.                        *)
(***************************************************************************)
MUnit == 10 * 10 * 10

Eye == <<<<MUnit, 0, 0>>, <<0, MUnit, 0>>, <<0, 0, MUnit>>>>

\* M @ perspective
MatMul(A, B) ==
    [i \in 1..3 |-> [j \in 1..3 |->
        (A[i][1] * B[1][j] + A[i][2] * B[2][j] + A[i][3] * B[3][j]) \div MUnit]]

\* the square of np.linalg.norm(A - eye), in millionths
NormSq(A) ==
    LET d(i, j) == A[i][j] - Eye[i][j]
        sq(i) == d(i, 1) * d(i, 1) + d(i, 2) * d(i, 2) + d(i, 3) * d(i, 3)
    IN  sq(1) + sq(2) + sq(3)

\* ltol = 5e-3, in thousandths
ltol == 5

MIN_MATCH_COUNT == 10

Min(a, b) == IF a < b THEN a ELSE b

Max(a, b) == IF a > b THEN a ELSE b

Min4(s) == Min(Min(s[1], s[2]), Min(s[3], s[4]))

Max4(s) == Max(Max(s[1], s[2]), Max(s[3], s[4]))

\* floor(num / den) for den # 0
FloorDiv(num, den) == IF den > 0 THEN num \div den ELSE (0 - num) \div (0 - den)

\* cv2.perspectiveTransform of the point (x, y), floored as cv2.boundingRect
\* floors it: a zero w coordinate yields 0
WarpFloor(A, x, y) ==
    LET w == A[3][1] * x + A[3][2] * y + A[3][3]
        X == A[1][1] * x + A[1][2] * y + A[1][3]
        Y == A[2][1] * x + A[2][2] * y + A[2][3]
    IN  IF w = 0 THEN <<0, 0>> ELSE <<FloorDiv(X, w), FloorDiv(Y, w)>>

\* src_rect after lines 412-414: the canvas rectangle as (x1, y1, x2, y2)
SrcRect(w, h) == <<0, 0, w, h>>

\* dst_rect after lines 410-416: the bounding rectangle of the warped corners
DstRect(A, w, h) ==
    LET c == <<WarpFloor(A, 0, 0), WarpFloor(A, 0, h - 1),
               WarpFloor(A, w - 1, h - 1), WarpFloor(A, w - 1, 0)>>
        xs == [k \in 1..4 |-> c[k][1]]
        ys == [k \in 1..4 |-> c[k][2]]
    IN  <<Min4(xs), Min4(ys), Max4(xs) + 1, Max4(ys) + 1>>

Abs(a) == IF a < 0 THEN 0 - a ELSE a

\* iou(boxA, boxB) < 0.5, with iou as the function computes it
IouBelowHalf(boxA, boxB) ==
    LET xA == Max(boxA[1], boxB[1])
        yA == Max(boxA[2], boxB[2])
        xB == Min(boxA[3], boxB[3])
        yB == Min(boxA[4], boxB[4])
        interArea == Abs(Max(xB - xA, 0) * Max(yB - yA, 0))
        boxAArea == Abs((boxA[3] - boxA[1]) * (boxA[4] - boxA[2]))
        boxBArea == Abs((boxB[3] - boxB[1]) * (boxB[4] - boxB[2]))
    IN  IF interArea = 0 THEN TRUE
        ELSE 2 * interArea < boxAArea + boxBArea - interArea

\* Snap without the IoU sanity check of lines 409-418
SnapNoIou(A, w, h) == IF NormSq(A) < ltol * ltol THEN Eye ELSE A

\* lines 406-418: drift suppression and the IoU sanity check
Snap(A, w, h) ==
    IF NormSq(A) < ltol * ltol THEN Eye
    ELSE IF IouBelowHalf(SrcRect(w, h), DstRect(A, w, h)) THEN Eye
    ELSE A

\* the number of snapshots of a sample is at most MaxSnaps
MaxSnaps == 3

\* the matcher returns at most MaxMatches matches
MaxMatches == 11

Translate(tx, ty) == <<<<MUnit, 0, tx>>, <<0, MUnit, ty>>, <<0, 0, MUnit>>>>

Scale(s) == <<<<s, 0, 0>>, <<0, s, 0>>, <<0, 0, MUnit>>>>

Zero3 == <<<<0, 0, 0>>, <<0, 0, 0>>, <<0, 0, 0>>>>

\* what cv2.findHomography may return: no matrix, or a matrix
FitResults ==
    {None, Eye, Translate(3, 0), Translate(MUnit, 0), Translate(0 - MUnit, 0),
     Translate(MUnit \div 2, 0), Scale(2 * MUnit), Zero3}

\* the canvas sizes (width, height) of the snapshots
Sizes == {<<4, 4>>, <<2, 4>>}

\* psd2pickle with the attributes the worker passes
Pickle(name, size, transform) == [name |-> name, size |-> size, transform |-> transform]

IdleAlign ==
    /\ wpc = "idle"
    /\ wfiles = <<>>
    /\ delete_psd = FALSE
    /\ psd_files = {}
    /\ M = Eye
    /\ reference_img = None
    /\ good = 0
    /\ fitted = FALSE
    /\ perspective = None
    /\ pkl = <<>>

\* lines 346-366: the call, up to the loop.  The files are 0.psd .. (n-1).psd;
\* sorted newest first the reference is n-1.
WorkerCall(n, del, size) ==
    /\ wpc = "idle"
    /\ delete_psd' = del
    /\ UNCHANGED <<good, fitted, perspective>>
    /\ IF n = 0
       THEN /\ wpc' = "done"
            /\ UNCHANGED <<wfiles, psd_files, M, reference_img, pkl>>
       ELSE /\ wpc' = "loop"
            /\ wfiles' = [k \in 1..(n - 1) |-> n - 1 - k]
            /\ M' = Eye
            /\ reference_img' = n - 1
            /\ pkl' = <<Pickle(n - 1, size, Eye)>>
            /\ psd_files' = IF del THEN 0..(n - 2) ELSE 0..(n - 1)
    /\ UNCHANGED <<loadVars, compVars>>

\* lines 368-425: one iteration of the loop.  des1 and des2 say whether SIFT
\* found descriptors in the current and the reference image, k is the number
\* of neighbours knnMatch returns per match, ngood the number of matches that
\* pass the ratio test, fit what cv2.findHomography returns.
AlignStep(size, des1, des2, k, nmatches, ngood, fit) ==
    /\ wpc = "loop"
    /\ wfiles # <<>>
    /\ ngood <= nmatches
    /\ UNCHANGED delete_psd
    /\ LET f == Head(wfiles)
           raisesMatch == ~des1 \/ ~des2
           raisesUnpack == nmatches > 0 /\ k < 2
           doFit == ngood > MIN_MATCH_COUNT
           persp == IF doFit THEN fit ELSE Eye
       IN  IF raisesMatch \/ raisesUnpack \/ persp = None
           THEN \* cv2.error from knnMatch, ValueError from "for m,n in
                \* matches", TypeError from "M @ perspective"
                /\ wpc' = "raised"
                /\ good' = IF raisesMatch \/ raisesUnpack THEN good ELSE ngood
                /\ fitted' = IF raisesMatch \/ raisesUnpack THEN fitted ELSE doFit
                /\ perspective' = IF raisesMatch \/ raisesUnpack THEN perspective ELSE persp
                /\ UNCHANGED <<wfiles, psd_files, M, reference_img, pkl>>
           ELSE /\ good' = ngood
                /\ fitted' = doFit
                /\ perspective' = persp
                /\ M' = Snap(MatMul(M, persp), size[1], size[2])
                /\ reference_img' = f
                /\ pkl' = Append(pkl, Pickle(f, size, M'))
                /\ psd_files' = IF delete_psd THEN psd_files \ {f} ELSE psd_files
                /\ wfiles' = Tail(wfiles)
                /\ wpc' = "loop"
    /\ UNCHANGED <<loadVars, compVars>>

\* line 427: the loop is over
WorkerReturn ==
    /\ wpc = "loop"
    /\ wfiles = <<>>
    /\ wpc' = "done"
    /\ UNCHANGED <<wfiles, delete_psd, psd_files, M, reference_img, good, fitted, perspective, pkl>>
    /\ UNCHANGED <<loadVars, compVars>>

(***************************************************************************)
(* Images.  A PIL image is a sequence of pixels <<r, g, b, a>> of bytes; a *)
(* float image holds the same channels in units of 1/Unit.                 *)
(***************************************************************************)
Unit == 5 * 5 * 5 * 5

\* np.array(x).astype(np.float32) / 255.0, and opacity / 255.0
ToFloat(b) == (b * Unit) \div 255

\* the product of two floats
Mul(x, y) == (x * y) \div Unit

ZeroPixel == <<0, 0, 0, 0>>

\* image.getbbox() is None
BBoxEmpty(img) == \A p \in DOMAIN img : img[p] = ZeroPixel

BLEND_DICT ==
    [b \in {"NORMAL", "MULTIPLY", "LINEAR_DODGE", "SCREEN", "padding"} |->
        CASE b = "NORMAL" -> 0
          [] b = "MULTIPLY" -> 1
          [] b = "LINEAR_DODGE" -> 2
          [] b = "SCREEN" -> 3
          [] b = "padding" -> 4]

\* the None of line 58, and of cur_layer_img at line 61
NoImage == <<>>

\* lines 51-58: the float image of a layer, its alpha premultiplied by the
\* opacity, or None for an empty, fully transparent or invisible layer
Normalized(l) ==
    IF ~BBoxEmpty(l.img) /\ l.opacity > 0 /\ l.visible
    THEN [p \in DOMAIN l.img |->
            <<ToFloat(l.img[p][1]), ToFloat(l.img[p][2]), ToFloat(l.img[p][3]),
              Mul(ToFloat(l.img[p][4]), ToFloat(l.opacity))>>]
    ELSE NoImage

\* lines 68-69: img[:, :, 3] *= cur_layer_img[:, :, 3]; img[img[:, :, 3] == 0] = 0
ClipTo(img, cur) ==
    [p \in DOMAIN img |->
        LET a == Mul(img[p][4], cur[p][4])
        IN  IF a = 0 THEN ZeroPixel ELSE <<img[p][1], img[p][2], img[p][3], a>>]

\* lines 60-70: the loop over the layers, from layer i on; ls are the layers
\* with their normalized images, cur is cur_layer_img, acc is layer_tensors.
\* cur_layer_img is a reference: when it is the clip layer's own array it sees
\* the clip layer's update.
RECURSIVE ClipResolve(_, _, _, _)
ClipResolve(ls, i, cur, acc) ==
    IF i > Len(ls) THEN acc
    ELSE IF ls[i].img = NoImage THEN ClipResolve(ls, i + 1, cur, acc)
    ELSE LET own == cur = NoImage \/ ~ls[i].is_clip
             cur1 == IF own THEN ls[i].img ELSE cur
             img1 == IF ls[i].is_clip THEN ClipTo(ls[i].img, cur1) ELSE ls[i].img
         IN  ClipResolve(ls, i + 1, IF own THEN img1 ELSE cur1,
                         Append(acc, [img |-> img1, blend_mode |-> ls[i].blend_mode]))

RECURSIVE AlphaSum(_, _)
\* the sum of the alpha channel over the pixels i.. of a float image
AlphaSum(img, i) == IF i > Len(img) THEN 0 ELSE img[i][4] + AlphaSum(img, i + 1)

\* t[i] > 0.95, where t[i] = mean alpha of the layer / mean alpha of the
\* preview (a / 0 is inf, 0 / 0 is nan)
RatioAbove(a, p) == IF p = 0 THEN a > 0 ELSE 100 * a > 95 * p

\* t[i] < 1e-5
RatioBelow(a, p) == IF p = 0 THEN FALSE ELSE 100000 * a < p

Raise == [raised |-> TRUE, out |-> <<>>]

Return(v) == [raised |-> FALSE, out |-> v]

RECURSIVE SelectSeq2(_, _, _)
\* the elements l[i] with keep[i], in order
SelectSeq2(l, keep, i) ==
    IF i > Len(l) THEN <<>>
    ELSE (IF keep[i] THEN <<l[i]>> ELSE <<>>) \o SelectSeq2(l, keep, i + 1)

\* lines 89-101.  np.stack raises on an empty list.
drop_full_post_filter(layer_tensors, preview) ==
    IF layer_tensors = <<>> THEN Raise
    ELSE LET p == AlphaSum(preview, 1)
             t(i) == AlphaSum(layer_tensors[i].img, 1)
             drop(i) == \/ RatioAbove(t(i), p) /\ (i - 1) > Len(layer_tensors) - 2
                        \/ RatioBelow(t(i), p)
         IN  Return(SelectSeq2(layer_tensors, [i \in 1..Len(layer_tensors) |-> ~drop(i)], 1))

\* lines 104-105
default_post_filter(layer_tensors, preview) == Return(layer_tensors)

RECURSIVE Occlude(_, _, _, _)
\* lines 78-83 without the test of the blend mode: every layer is zeroed where
\* covered and covers where opaque
OccludeAnyBlend(ts, i, mask, acc) ==
    IF i = 0 THEN acc
    ELSE LET img1 == [p \in DOMAIN ts[i].img |->
                        IF p \in mask THEN ZeroPixel ELSE ts[i].img[p]]
             mask1 == mask \cup {p \in DOMAIN img1 : img1[p][4] = Unit}
         IN  Occlude(ts, i - 1, mask1, <<[ts[i] EXCEPT !.img = img1]>> \o acc)

\* lines 78-83: the loop over reversed(layer_tensors), from layer i down; mask
\* is the set of the pixels with mask == 1
Occlude(ts, i, mask, acc) ==
    IF i = 0 THEN acc
    ELSE IF ts[i].blend_mode # "NORMAL" THEN Occlude(ts, i - 1, mask, <<ts[i]>> \o acc)
    ELSE LET img1 == [p \in DOMAIN ts[i].img |->
                        IF p \in mask THEN ZeroPixel ELSE ts[i].img[p]]
             mask1 == mask \cup {p \in DOMAIN img1 : img1[p][4] = Unit}
         IN  Occlude(ts, i - 1, mask1, <<[ts[i] EXCEPT !.img = img1]>> \o acc)

\* lines 47-85; layer_tensors[0] raises on an empty list
pil2tensor(data, layer_tensor_filter, occl) ==
    LET ls == [i \in 1..Len(data.layers) |->
                  [data.layers[i] EXCEPT !.img = Normalized(data.layers[i])]]
        preview == [p \in DOMAIN data.preview |->
                      [c \in 1..4 |-> ToFloat(data.preview[p][c])]]
        lt == ClipResolve(ls, 1, NoImage, <<>>)
        f == IF layer_tensor_filter = None THEN Return(lt)
             ELSE IF layer_tensor_filter = "drop_full_post_filter"
                  THEN drop_full_post_filter(lt, preview)
                  ELSE default_post_filter(lt, preview)
    IN  IF f.raised \/ ~occl THEN f
        ELSE IF f.out = <<>> THEN Raise
        ELSE Return(Occlude(f.out, Len(f.out), {}, <<>>))

\* l without its element at position idx (1-based)
Del(l, idx) == [k \in 1..(Len(l) - 1) |-> IF k < idx THEN l[k] ELSE l[k + 1]]

RECURSIVE RandomDrop(_, _)
\* lines 233-236: every list the loop may end with
RandomDrop(l, cap) ==
    IF Len(l) > cap
    THEN UNION {RandomDrop(Del(l, idx), cap) : idx \in 1..Len(l)}
    ELSE {l}

\* the one-hot row of a kept slot, without the collapse of line 247
OneHotRowNoCollapse(code) == [m \in 0..4 |-> IF m = code THEN 1 ELSE 0]

\* lines 246-247: the row of np.identity(len(BLEND_DICT)), with the NORMAL
\* column set in a padding row
OneHotRow(code) ==
    [m \in 0..4 |->
        IF m = code \/ (code = BLEND_DICT["padding"] /\ m = BLEND_DICT["NORMAL"])
        THEN 1 ELSE 0]

\* padding appended instead of prepended
PadAfter(kept, cap) ==
    LET n == Len(kept)
        zero == [p \in DOMAIN kept[1].img |-> ZeroPixel]
    IN  [tensors |-> [k \in 1..cap |-> IF k <= n THEN kept[k].img ELSE zero],
         codes |-> [k \in 1..cap |->
                      IF k <= n THEN BLEND_DICT[kept[k].blend_mode]
                      ELSE BLEND_DICT["padding"]]]

\* lines 237-244: np.stack, the blend codes and the padding, for a non-empty
\* list kept of at most cap layers
Pad(kept, cap) ==
    LET n == Len(kept)
        zero == [p \in DOMAIN kept[1].img |-> ZeroPixel]
    IN  [tensors |-> [k \in 1..cap |-> IF k <= cap - n THEN zero ELSE kept[k - (cap - n)].img],
         codes |-> [k \in 1..cap |->
                      IF k <= cap - n THEN BLEND_DICT["padding"]
                      ELSE BLEND_DICT[kept[k - (cap - n)].blend_mode]]]

\* lines 228-248: what load_pkl_data may do with a sample: raise, or return
\* (tensors, one_hot_bm, len(sample['layers'])).  `layers` is its local
\* variable of that name.  The transpose of line 245 changes the layout of
\* each image only.
Loaded(data, cap, filter, occl) ==
    LET r == pil2tensor(data, filter, occl)
    IN  IF r.raised
        THEN {[raised |-> TRUE, layers |-> <<>>, tensors |-> <<>>, one_hot_bm |-> <<>>,
               true_count |-> 0]}
        ELSE {IF kept = <<>>
              THEN [raised |-> TRUE, layers |-> r.out, tensors |-> <<>>,
                    one_hot_bm |-> <<>>, true_count |-> 0]
              ELSE LET pd == IF Len(kept) < cap
                             THEN Pad(kept, cap)
                             ELSE [tensors |-> [k \in 1..Len(kept) |-> kept[k].img],
                                   codes |-> [k \in 1..Len(kept) |->
                                                BLEND_DICT[kept[k].blend_mode]]]
                   IN  [raised |-> FALSE, layers |-> r.out, tensors |-> pd.tensors,
                        one_hot_bm |-> [k \in 1..Len(pd.codes) |-> OneHotRow(pd.codes[k])],
                        true_count |-> Len(data.layers)]
              : kept \in RandomDrop(r.out, cap)}

\* a sample holds at most MaxLayers layer records
MaxLayers == 3

\* max_layers is at most MaxCap
MaxCap == 2

Z == ZeroPixel

Op == <<255, 51, 0, 255>>

\* the previews of the samples
Previews == {<<Op, Op>>, <<Op, Z>>}

Layer(img, opacity, visible, blend_mode, is_clip) ==
    [img |-> img, opacity |-> opacity, visible |-> visible, blend_mode |-> blend_mode,
     is_clip |-> is_clip]

\* the layer records of the samples given to pil2tensor
TensorInputs ==
    {Layer(img, vo[1], vo[2], b, c) :
        img \in {<<Op, Op>>, <<Op, Z>>},
        vo \in {<<255, TRUE>>, <<51, TRUE>>, <<255, FALSE>>},
        b \in {"NORMAL", "MULTIPLY"},
        c \in BOOLEAN}

\* the layer records of the samples given to load_pkl_data
LoadInputs ==
    {Layer(<<Op, Op>>, 255, TRUE, b, FALSE) :
        b \in {"NORMAL", "MULTIPLY", "LINEAR_DODGE", "SCREEN"}}
    \cup {Layer(<<Op, Op>>, 255, FALSE, "NORMAL", FALSE),
          Layer(<<Op, Op>>, 0, TRUE, "NORMAL", FALSE),
          Layer(<<Z, Z>>, 255, TRUE, "NORMAL", FALSE),
          Layer(<<Op, Z>>, 51, TRUE, "MULTIPLY", TRUE)}

IdleLoad ==
    /\ lpc = "idle"
    /\ sample = [preview |-> <<>>, layers |-> <<>>]
    /\ max_layers = 0
    /\ post_filter = None
    /\ remove_occluded = FALSE
    /\ layers = <<>>
    /\ tensors = <<>>
    /\ one_hot_bm = <<>>
    /\ true_count = 0

\* a sample with no layer yet; for load_pkl_data, PSDPickleDataset.__init__
\* has set max_layers and post_filter
NewSample(preview, cap, filter) ==
    /\ lpc = "build"
    /\ sample = [preview |-> preview, layers |-> <<>>]
    /\ max_layers = cap
    /\ post_filter = filter
    /\ remove_occluded = FALSE
    /\ layers = <<>>
    /\ tensors = <<>>
    /\ one_hot_bm = <<>>
    /\ true_count = 0

\* psd2pil, lines 36 and 42: the sample gets one more layer record; a clip
\* layer follows the layer it is clipped to
AddLayer(l) ==
    /\ lpc = "build"
    /\ Len(sample.layers) < MaxLayers
    /\ l.is_clip => sample.layers # <<>>
    /\ sample' = [sample EXCEPT !.layers = Append(@, l)]
    /\ UNCHANGED <<lpc, max_layers, post_filter, remove_occluded, layers, tensors,
                   one_hot_bm, true_count>>
    /\ UNCHANGED <<alignVars, compVars>>

\* a call of pil2tensor(sample, filter, occl)
CallPil2Tensor(filter, occl) ==
    /\ lpc = "build"
    /\ post_filter' = filter
    /\ remove_occluded' = occl
    /\ LET r == pil2tensor(sample, filter, occl)
       IN  /\ lpc' = IF r.raised THEN "raised" ELSE "returned"
           /\ layers' = r.out
    /\ UNCHANGED <<sample, max_layers, tensors, one_hot_bm, true_count>>
    /\ UNCHANGED <<alignVars, compVars>>

\* a call of load_pkl_data(path, occl, warp, resize_to_final), from line 228 on
LoadPklData(occl) ==
    /\ lpc = "build"
    /\ remove_occluded' = occl
    /\ \E r \in Loaded(sample, max_layers, post_filter, occl) :
        /\ lpc' = IF r.raised THEN "raised" ELSE "returned"
        /\ layers' = r.layers
        /\ tensors' = r.tensors
        /\ one_hot_bm' = r.one_hot_bm
        /\ true_count' = r.true_count
    /\ UNCHANGED <<sample, max_layers, post_filter>>
    /\ UNCHANGED <<alignVars, compVars>>

(***************************************************************************)
(* LinearComposite, for one batch entry.  A slot of the batch is a float   *)
(* image and its row of the blend matrix; ret holds <<r, g, b>> per pixel. *)
(***************************************************************************)
Clamp01(x) == IF x < 0 THEN 0 ELSE IF x > Unit THEN Unit ELSE x

\* lines 444-453 for one channel value src of a pixel with alpha a, over the
\* running result r
BlendChannel(src, a, r, row) ==
    LET src_alpha == Mul(src, a)
        shaded_base == Mul(Unit - a, r)
        normal == src_alpha + shaded_base
        multiply == Mul(src_alpha, r) + shaded_base
        linear_dodge == Clamp01(src_alpha + r)
        screen == Unit - Mul(Unit - r, Unit - src_alpha)
    IN  row[0] * normal + row[1] * multiply + row[2] * linear_dodge + row[3] * screen

\* lines 444-453: one iteration of the loop over the slots
BlendSlot(r, slot) ==
    [p \in DOMAIN r |->
        [c \in 1..3 |-> BlendChannel(slot.img[p][c], slot.img[p][4], r[p][c], slot.row)]]

ZeroImage == <<ZeroPixel, ZeroPixel>>

\* a padding slot as load_pkl_data makes it, lines 240-247
PaddingSlot == [img |-> ZeroImage, row |-> OneHotRow(BLEND_DICT["padding"])]

\* the slot load_pkl_data makes of a layer
RealSlot(img, blend_mode) == [img |-> img, row |-> OneHotRow(BLEND_DICT[blend_mode])]

\* the float images of the real slots: opaque, and translucent beside transparent
SlotImages ==
    {<<<<Unit, Unit \div 5, 0, Unit>>, <<Unit, Unit \div 5, 0, Unit>>>>,
     <<<<Unit, Unit, Unit, Unit \div 5>>, ZeroPixel>>}

SlotInputs ==
    {PaddingSlot} \cup
    {RealSlot(img, b) : img \in SlotImages,
                        b \in {"NORMAL", "MULTIPLY", "LINEAR_DODGE", "SCREEN"}}

Backgrounds == {0, Unit \div 5, Unit}

\* a batch entry holds at most MaxSlots slots
MaxSlots == 3

IdleComposite ==
    /\ cpc = "idle"
    /\ batch = <<>>
    /\ background = 0
    /\ ret = <<>>
    /\ ci = 0

\* the batch entry gets one more slot
AppendSlot(s) ==
    /\ cpc = "build"
    /\ Len(batch) < MaxSlots
    /\ batch' = Append(batch, s)
    /\ UNCHANGED <<cpc, background, ret, ci>>
    /\ UNCHANGED <<alignVars, loadVars>>

\* lines 437-442: the call, up to the loop
CompositeCall(bg) ==
    /\ cpc = "build"
    /\ cpc' = "loop"
    /\ background' = bg
    /\ ret' = [p \in DOMAIN ZeroImage |-> <<bg, bg, bg>>]
    /\ ci' = 0
    /\ UNCHANGED batch
    /\ UNCHANGED <<alignVars, loadVars>>

\* lines 443-453: one iteration
CompositeIter ==
    /\ cpc = "loop"
    /\ ci < Len(batch)
    /\ ret' = BlendSlot(ret, batch[ci + 1])
    /\ ci' = ci + 1
    /\ UNCHANGED <<cpc, batch, background>>
    /\ UNCHANGED <<alignVars, loadVars>>

\* line 454
CompositeReturn ==
    /\ cpc = "loop"
    /\ ci = Len(batch)
    /\ cpc' = "done"
    /\ UNCHANGED <<batch, background, ret, ci>>
    /\ UNCHANGED <<alignVars, loadVars>>

InitAlign == IdleAlign /\ IdleLoad /\ IdleComposite

NextAlign ==
    \/ \E n \in 0..MaxSnaps, del \in BOOLEAN, size \in Sizes : WorkerCall(n, del, size)
    \/ \E size \in Sizes, des1 \in BOOLEAN, des2 \in BOOLEAN, k \in 1..2,
          nmatches \in {0, MaxMatches}, ngood \in 0..MaxMatches, fit \in FitResults :
            AlignStep(size, des1, des2, k, nmatches, ngood, fit)
    \/ WorkerReturn

SpecAlign == InitAlign /\ [][NextAlign]_vars

InitTensor ==
    /\ IdleAlign
    /\ IdleComposite
    /\ NewSample(<<Op, Op>>, 0, None)

NextTensor ==
    \/ \E l \in TensorInputs : AddLayer(l)
    \/ \E occl \in BOOLEAN : CallPil2Tensor(None, occl)

SpecTensor == InitTensor /\ [][NextTensor]_vars

InitLoad ==
    /\ IdleAlign
    /\ IdleComposite
    /\ \E preview \in Previews, cap \in 0..MaxCap,
          filter \in {"default_post_filter", "drop_full_post_filter"} :
            NewSample(preview, cap, filter)

NextLoad ==
    \/ \E l \in LoadInputs : AddLayer(l)
    \/ \E occl \in BOOLEAN : LoadPklData(occl)

SpecLoad == InitLoad /\ [][NextLoad]_vars

InitComposite ==
    /\ IdleAlign
    /\ IdleLoad
    /\ cpc = "build"
    /\ batch = <<>>
    /\ background = 0
    /\ ret = <<>>
    /\ ci = 0

NextComposite ==
    \/ \E s \in SlotInputs : AppendSlot(s)
    \/ \E bg \in Backgrounds : CompositeCall(bg)
    \/ CompositeIter
    \/ CompositeReturn

SpecComposite == InitComposite /\ [][NextComposite]_vars

(***************************************************************************)
(* Claims about the snapshot aligner.                                      *)
(***************************************************************************)

\* C2: for every outcome of feature detection, matching and homography
\* estimation the alignment step does not raise.
AlignmentNeverRaises == wpc # "raised"

\* the transform T written for a snapshot of size (w, h) passes the drift and
\* the IoU test
Plausible(T, size) ==
    /\ NormSq(T) >= ltol * ltol
    /\ ~IouBelowHalf(SrcRect(size[1], size[2]), DstRect(T, size[1], size[2]))

\* C3: every transform persisted for a snapshot is exactly the identity, or
\* its norm(M - I) is at least 5e-3 and the IoU of its warped canvas with the
\* canvas is at least 0.5; the reference snapshot is persisted with the
\* identity.
PersistedTransformGuarded ==
    \A i \in 1..Len(pkl) :
        /\ i = 1 => pkl[i].transform = Eye
        /\ pkl[i].transform = Eye \/ Plausible(pkl[i].transform, pkl[i].size)

\* C3 witness: a non-identity transform was persisted for one snapshot, and for
\* the next the accumulated non-identity transform was replaced by the identity.
PersistedTransformGuardedWitness ==
    /\ wpc = "loop"
    /\ Len(pkl) >= 3
    /\ pkl[2].transform # Eye
    /\ pkl[3].transform = Eye
    /\ fitted
    /\ perspective # Eye

\* C7: the incremental homography is the identity default exactly when fewer
\* than 10 correspondences pass the ratio test, and the result of the robust
\* fit whenever 10 or more remain.
FitFromTenMatches == Len(pkl) > 1 => (fitted <=> good >= MIN_MATCH_COUNT)

(***************************************************************************)
(* Claims about the tensor assembler.                                      *)
(***************************************************************************)

\* s is obtained from l by deleting elements
RECURSIVE IsSubSeq(_, _)
IsSubSeq(s, l) ==
    IF s = <<>> THEN TRUE
    ELSE IF l = <<>> THEN FALSE
    ELSE IF Head(s) = Head(l) /\ IsSubSeq(Tail(s), Tail(l)) THEN TRUE
    ELSE IsSubSeq(s, Tail(l))

\* slot k of the returned batch, with its row of the blend matrix
ReturnedSlot(k) == [img |-> tensors[k], row |-> one_hot_bm[k]]

\* the slot a retained layer should become: its image, and the one-hot row of
\* its own blend mode
ExpectedSlot(layer) ==
    [img |-> layer.img,
     row |-> [m \in 0..4 |->
                IF (m = 0 /\ layer.blend_mode = "NORMAL")
                   \/ (m = 1 /\ layer.blend_mode = "MULTIPLY")
                   \/ (m = 2 /\ layer.blend_mode = "LINEAR_DODGE")
                   \/ (m = 3 /\ layer.blend_mode = "SCREEN")
                THEN 1 ELSE 0]]

\* C1: whatever the number n of layers that survive normalization and the
\* filter, load_pkl_data completes without error, the batch and the blend
\* matrix have max_layers entries each, and for n > max_layers the entries are
\* n - (n - max_layers) of the n layers, each with its own blend mode.
LoadFixedSize ==
    lpc # "build" =>
        /\ lpc = "returned"
        /\ Len(tensors) = max_layers
        /\ Len(one_hot_bm) = max_layers
        /\ Len(layers) > max_layers =>
              IsSubSeq([k \in 1..max_layers |-> ReturnedSlot(k)],
                       [k \in 1..Len(layers) |-> ExpectedSlot(layers[k])])

\* the number of slots of the returned batch that are not padding
RealSlots == Cardinality({k \in 1..Len(one_hot_bm) : one_hot_bm[k][4] = 0})

\* C6: the third returned value is the number of real, non-padding slots of
\* the returned batch.
TrueCountIsRealSlots == lpc = "returned" => true_count = RealSlots

RECURSIVE RetainedFrom(_)
\* the positions in the sample of the layers that normalization retains, from
\* position i on
RetainedFrom(i) ==
    IF i > Len(sample.layers) THEN <<>>
    ELSE (IF Normalized(sample.layers[i]) # NoImage THEN <<i>> ELSE <<>>)
         \o RetainedFrom(i + 1)

\* the parent of the clip layer at position i: the most recent layer before it
\* that is no clip layer
Parent(i) ==
    CHOOSE j \in 1..(i - 1) :
        /\ ~sample.layers[j].is_clip
        /\ \A k \in (j + 1)..(i - 1) : sample.layers[k].is_clip

\* C4: every retained clip layer is zero (r = g = b = a = 0) at every pixel
\* where its parent has alpha 0.
ClipZeroWhereParentTransparent ==
    (lpc = "returned" /\ post_filter = None) =>
        LET at == RetainedFrom(1)
        IN  \A j \in 1..Len(layers) :
                sample.layers[at[j]].is_clip =>
                    \A p \in DOMAIN layers[j].img :
                        sample.layers[Parent(at[j])].img[p][4] = 0
                            => layers[j].img[p] = ZeroPixel

\* the stack pil2tensor holds before the filter
Unfiltered == pil2tensor(sample, None, FALSE).out

\* C8: drop_full_post_filter drops layer i of a stack of k layers if and only
\* if (t[i] > 0.95 and i >= k - 2) or t[i] < 1e-5, and keeps the others in
\* order with their blend modes.
DropsFullAmongLastTwo ==
    (lpc = "returned" /\ post_filter = "drop_full_post_filter" /\ ~remove_occluded) =>
        LET stack == Unfiltered
            k == Len(stack)
            p == AlphaSum([q \in DOMAIN sample.preview |->
                              [c \in 1..4 |-> ToFloat(sample.preview[q][c])]], 1)
            t(i) == AlphaSum(stack[i].img, 1)
            dropped(i) == \/ RatioAbove(t(i), p) /\ (i - 1) >= k - 2
                          \/ RatioBelow(t(i), p)
        IN  layers = SelectSeq2(stack, [i \in 1..k |-> ~dropped(i)], 1)

\* the stack pil2tensor holds before occlusion removal
Unoccluded == pil2tensor(sample, post_filter, FALSE).out

\* a NORMAL layer above layer i is fully opaque at pixel p in the result
CoveredAbove(i, p) ==
    \E j \in (i + 1)..Len(layers) :
        layers[j].blend_mode = "NORMAL" /\ layers[j].img[p][4] = Unit

\* C10: with remove_occluded, a pixel of a NORMAL layer is zeroed if and only
\* if a NORMAL layer above it has alpha exactly 1 there after its own
\* occlusion step; a layer that is not NORMAL is returned unchanged and
\* covers nothing.
OcclusionByOpaqueNormalOnly ==
    (lpc = "returned" /\ remove_occluded) =>
        LET before == Unoccluded
        IN  /\ Len(layers) = Len(before)
            /\ \A i \in 1..Len(layers) :
                /\ layers[i].blend_mode = before[i].blend_mode
                /\ \A p \in DOMAIN layers[i].img :
                    layers[i].img[p] =
                        IF layers[i].blend_mode = "NORMAL" /\ CoveredAbove(i, p)
                        THEN ZeroPixel
                        ELSE before[i].img[p]

\* C10 witness: a pixel of a NORMAL layer was zeroed under an opaque NORMAL
\* layer, and another NORMAL layer keeps a pixel under an opaque layer that is
\* not NORMAL
OcclusionByOpaqueNormalOnlyWitness ==
    /\ lpc = "returned"
    /\ remove_occluded
    /\ LET before == Unoccluded
       IN  /\ \E i \in 1..Len(layers), p \in DOMAIN ZeroImage :
                /\ layers[i].img[p] = ZeroPixel
                /\ before[i].img[p] # ZeroPixel
           /\ \E i \in 1..Len(layers), p \in DOMAIN ZeroImage :
                /\ layers[i].blend_mode = "NORMAL"
                /\ layers[i].img[p] # ZeroPixel
                /\ \E j \in (i + 1)..Len(layers) :
                    layers[j].blend_mode # "NORMAL" /\ layers[j].img[p][4] = Unit

(***************************************************************************)
(* Claims about LinearComposite.                                           *)
(***************************************************************************)

\* a slot with zero image content whose blend row is a PADDING row
IsPadding(slot) ==
    /\ \A p \in DOMAIN slot.img : slot.img[p] = ZeroPixel
    /\ slot.row[4] = 1

BackgroundImage == [p \in DOMAIN ZeroImage |-> <<background, background, background>>]

\* C5: compositing a padding slot leaves the running result unchanged,
\* whatever the running result is; a batch entry of padding slots only
\* composites to the constant background image.
PaddingSlotIsNoOp ==
    /\ [][(cpc = "loop" /\ ci < Len(batch) /\ IsPadding(batch[ci + 1])) => ret' = ret]_vars
    /\ []((cpc = "done" /\ \A k \in 1..Len(batch) : IsPadding(batch[k]))
            => ret = BackgroundImage)

\* C5 witness: a padding slot was composited over a running result that a real
\* slot had changed
PaddingSlotIsNoOpWitness ==
    /\ cpc = "loop"
    /\ ci >= 2
    /\ IsPadding(batch[ci])
    /\ ~IsPadding(batch[ci - 1])
    /\ ret # BackgroundImage

====
